---------------------------- MODULE Spec2Model ----------------------------
(***************************************************************************)
(* Model of the packed radix-16 tree node of tree_node.go: the 14-slot     *)
(* internal hash cache, the per-node version ledger, the sequential        *)
(* update paths, the cooperative recompute protocol, the parallel batch    *)
(* recompute, archival and the serialized projection.                      *)
(*                                                                         *)
(* Hashes are modelled as terms: a leaf hash is a one-element tuple <<k>>, *)
(* hasher.Hash(l, r) is the pair <<l, r>> (an injective combiner), and a   *)
(* Go nil byte slice is the empty tuple.                                   *)
(***************************************************************************)
EXTENDS Integers, Sequences, FiniteSets, TLC

VARIABLES
    \* ---- the TreeNode under study (struct TreeNode) ----
    Children,      \* [16]*TreeNode : per nibble, a child (nil or its ledger)
    Internals,     \* [14]InternalNode
    Versions,      \* []*VersionInfo
    internalVer,   \* []Version, written by setInternal
    \* ---- harness of the sequential operations ----
    focus,         \* the nibbles this run draws its inputs from
    nops,          \* number of calls made so far
    lastOp,        \* the last call: its name, arguments and return value
    clean,         \* TRUE while only SetChildren/ComputeInternalHash were called
    \* ---- harness of the cooperative recompute protocol ----
    journal,       \* nibbles of the children tracked by the journal (the batch)
    racers,        \* the children whose calls run step by step
    phase,         \* "off", "init", "run"
    bver,          \* the version the batch commits
    prior,         \* whether the batch's children hold an entry of version 0
    proc,          \* per child: position and locals of its recompute call
    wrote,         \* per slot: number of setInternal writes since invalidation
    \* ---- harness of rollback and re-apply ----
    log,           \* the SetChildren updates applied, in order
    orig,          \* the ledger before Rollback
    target,        \* the Rollback target version
    ridx,          \* index in log of the next update to look at when re-applying
    \* ---- harness of the parallel batch recompute ----
    batch,         \* position and locals of the computeInternal call
    \* ---- harness of archival and of the serialized projection ----
    tree,          \* a node with its children and their children
    arch           \* calls made on tree, their arguments and results

nodeVars == <<Children, Internals, Versions, internalVer>>
seqVars  == <<focus, nops, lastOp, clean>>
coopVars == <<journal, racers, phase, bver, prior, proc, wrote>>
replayVars == <<log, orig, target, ridx>>
batchVars == <<batch>>
treeVars == <<tree, arch>>
vars == <<Children, Internals, Versions, internalVer,
          focus, nops, lastOp, clean,
          journal, racers, phase, bver, prior, proc, wrote,
          log, orig, target, ridx,
          batch, tree, arch>>

(***************************************************************************)
(* Bounds of the model.                                                    *)
(***************************************************************************)
MaxVer == 2        \* versions are drawn from 0..MaxVer
MaxHash == 2       \* leaf hashes are <<1>> .. <<MaxHash>>
MaxFoldOps == 2    \* calls per run of the cache harness (SpecFold)
MaxLedgerOps == 1  \* calls per run of the ledger harness (SpecLedger)
MaxBatchVer == 1   \* a cooperative batch commits a version in 0..MaxBatchVer
MaxLog == 2        \* SetChildren updates made before a Rollback (SpecReplay)

(***************************************************************************)
(* Program constants.                                                      *)
(***************************************************************************)
versionSize == 40
NumChildren == 16
NumInternals == 14

Nibbles == 0 .. (NumChildren - 1)
Slots == 0 .. (NumInternals - 1)
VersionRange == 0 .. MaxVer

\* A nil []byte / a nil InternalNode.
Nil == <<>>

\* hasher.Hash(left, right): deterministic and pure; modelled injective.
Hash(left, right) == <<left, right>>

HashValues == {<<k>> : k \in 1 .. MaxHash}

\* nilHashes.Get(depth + k) for k in 0..4, relative to the node's depth:
\* the hash of an all-empty subtree, the fold of Hash over the level below.
RECURSIVE NilHashes(_)
NilHashes(k) == IF k >= 4 THEN <<0>>
                ELSE Hash(NilHashes(k + 1), NilHashes(k + 1))

nilHash == NilHashes(0)
nilChildHash == NilHashes(4)

\* x ^ 1 on a non-negative integer
Xor1(x) == IF x % 2 = 0 THEN x + 1 ELSE x - 1

VersionInfo(ver, hash) == [Ver |-> ver, Hash |-> hash]

\* A child pointer: nil, or a child TreeNode of which the parent reads the ledger.
NilChild == [isNil |-> TRUE, Versions |-> <<>>]
ChildNode(versions) == [isNil |-> FALSE, Versions |-> versions]

\* NewTreeNode: no children, the three cached levels preset to the nil hashes.
NewInternals == [i \in Slots |-> IF i < 2 THEN NilHashes(1)
                                 ELSE IF i < 6 THEN NilHashes(2)
                                 ELSE NilHashes(3)]
NewChildren == [n \in Nibbles |-> NilChild]
NewInternalVer == [i \in Slots |-> 0]

\* node.root(): the latest hash of a ledger, nh for an empty ledger
root(versions, nh) == IF Len(versions) = 0 THEN nh
                      ELSE versions[Len(versions)].Hash

\* node.Root() of the node under study
Root == root(Versions, nilHash)

\* node.Children[n].Root(), or nilChildHash for a nil pointer
\* (a child's own nilHash is its parent's nilChildHash)
ChildRoot(children, n) ==
    IF children[n].isNil THEN nilChildHash
    ELSE root(children[n].Versions, nilChildHash)

\* node.latestVersion()
latestVersion(versions) == IF Len(versions) <= 0 THEN 0
                           ELSE versions[Len(versions)].Ver

newVersion_AlwaysAppend(versions, version) == Append(versions, version)

\* node.newVersion(version): overwrite the last entry of the same version,
\* append otherwise
newVersion(versions, version) ==
    IF Len(versions) > 0 /\ versions[Len(versions)].Ver = version.Ver
    THEN [versions EXCEPT ![Len(versions)] = version]
    ELSE Append(versions, version)

\* The table leafInternalMap (lines 647-664)
leafInternalMap ==
    (0 :> {0, 2, 6}) @@ (1 :> {0, 2, 6}) @@ (2 :> {0, 2, 7}) @@
    (3 :> {0, 2, 7}) @@ (4 :> {0, 3, 8}) @@ (5 :> {0, 3, 8}) @@
    (6 :> {0, 3, 9}) @@ (7 :> {0, 3, 9}) @@ (8 :> {1, 4, 10}) @@
    (9 :> {1, 4, 10}) @@ (10 :> {1, 4, 11}) @@ (11 :> {1, 4, 11}) @@
    (12 :> {1, 5, 12}) @@ (13 :> {1, 5, 12}) @@ (14 :> {1, 5, 13}) @@
    (15 :> {1, 5, 13})

\* The loop of SetChildren (lines 134-149): three iterations, i = 4, 2, 1.
RECURSIVE SetChildrenLoop(_, _, _, _, _, _)

SetChildrenLoop_NoSwap(internals, prefix, i, nibble, left, right) ==
    IF i < 1 THEN internals
    ELSE LET nb == nibble \div 2
             idx == prefix + nb
             sib == Xor1(prefix + nb)
             ints == [internals EXCEPT ![idx] = Hash(left, right)]
         IN  SetChildrenLoop(ints, prefix - i, i \div 2, nb, ints[idx], ints[sib])

SetChildrenLoop(internals, prefix, i, nibble, left, right) ==
    IF i < 1 THEN internals
    ELSE LET nb == nibble \div 2
             idx == prefix + nb
             sib == Xor1(prefix + nb)
             ints == [internals EXCEPT ![idx] = Hash(left, right)]
         IN  SetChildrenLoop(ints, prefix - i, i \div 2, nb,
                             IF nb % 2 = 0 THEN ints[idx] ELSE ints[sib],
                             IF nb % 2 = 0 THEN ints[sib] ELSE ints[idx])

\* The Internals SetChildren leaves, children being the array after the
\* assignment node.Children[nibble] = child.
SetChildrenInternals(children, internals, nibble) ==
    LET own == ChildRoot(children, nibble)
        sibling == ChildRoot(children, Xor1(nibble))
        left == IF nibble % 2 = 0 THEN own ELSE sibling
        right == IF nibble % 2 = 0 THEN sibling ELSE own
    IN  SetChildrenLoop(internals, 6, 4, nibble, left, right)

\* SetChildren(child, nibble, version) on the node state st: the child is
\* attached, the three slots of its chain recomputed, the root minted.
SetChildrenOp(st, child, nibble, version) ==
    LET children == [st.Children EXCEPT ![nibble] = child]
        internals == SetChildrenInternals(children, st.Internals, nibble)
    IN  [Children |-> children,
         Internals |-> internals,
         Versions |-> newVersion(st.Versions,
                          VersionInfo(version, Hash(internals[0], internals[1])))]

\* The from-scratch fold of the 16 child roots, level by level.
FoldSlot(children, i) ==
    LET L1(k) == Hash(ChildRoot(children, 2 * (k - 6)),
                      ChildRoot(children, 2 * (k - 6) + 1))
        L2(k) == Hash(L1(2 * k + 2), L1(2 * k + 3))
        L3(k) == Hash(L2(2 * k + 2), L2(2 * k + 3))
    IN  IF i >= 6 THEN L1(i) ELSE IF i >= 2 THEN L2(i) ELSE L3(i)
FoldInternals(children) == [i \in Slots |-> FoldSlot(children, i)]
FoldRoot(children) == Hash(FoldSlot(children, 0), FoldSlot(children, 1))


\* The second loop of ComputeInternalHash (lines 174-176): i = 13, 11, .., 3.
RECURSIVE ComputeInternalLoop(_, _)
ComputeInternalLoop(internals, i) ==
    IF i <= 1 THEN internals
    ELSE ComputeInternalLoop(
             [internals EXCEPT ![(i \div 2) - 1] =
                                   Hash(internals[i - 1], internals[i])],
             i - 2)

\* ComputeInternalHash: the leaf-pair slots from the children (lines 163-172),
\* then the upper slots; the ledger is not touched.
ComputeInternalHashOp(children, internals) ==
    LET leaves == [k \in Slots |->
                      IF k >= 6
                      THEN Hash(ChildRoot(children, 2 * (k - 6)),
                                ChildRoot(children, 2 * (k - 6) + 1))
                      ELSE internals[k]]
    IN  ComputeInternalLoop(leaves, 13)

markOp_LeafPairOnly(internals, nibble) ==
    [i \in Slots |-> IF i \in leafInternalMap[nibble] /\ i >= 6 THEN Nil
                     ELSE internals[i]]

\* mark(nibble): the slots of leafInternalMap[nibble] become nil
markOp(internals, nibble) ==
    [i \in Slots |-> IF i \in leafInternalMap[nibble] THEN Nil ELSE internals[i]]

\* childrenHash(nibble): the two inputs of slot nibble
childrenHash(children, internals, nibble) ==
    IF nibble >= 6
    THEN LET nb == 2 * nibble + 2 - 14
         IN  <<ChildRoot(children, nb), ChildRoot(children, Xor1(nb))>>
    ELSE LET nb == 2 * nibble + 2
         IN  <<internals[nb], internals[Xor1(nb)]>>

\* One level of computeInternal (lines 342-356): the tasks of the dirty slots
\* in prefix .. 2*prefix+1 have all run when wg.Wait() returns; they write
\* distinct slots and read only children or slots of the level below.
computeInternalLevel(children, internals, dirty, prefix) ==
    [k \in Slots |->
        IF k \in dirty /\ k >= prefix /\ k <= 2 * prefix + 1
        THEN LET lr == childrenHash(children, internals, k)
             IN  Hash(lr[1], lr[2])
        ELSE internals[k]]

\* The Internals computeInternal leaves: levels with prefix 6, 2, 0 in turn.
computeInternalOp(children, internals, dirty) ==
    computeInternalLevel(children,
        computeInternalLevel(children,
            computeInternalLevel(children, internals, dirty, 6),
            dirty, 2),
        dirty, 0)

\* s[lo..] for a 0-based lo: the Go slice expression versions[lo:]
SliceFrom(s, lo) == SubSeq(s, lo + 1, Len(s))

\* The loop of Prune (lines 213-218), 0-based index i
RECURSIVE PruneLoop(_, _, _)
PruneLoop(versions, oldestVersion, i) ==
    IF i < Len(versions) - 1 /\ ~(versions[i + 1].Ver >= oldestVersion)
    THEN PruneLoop(versions, oldestVersion, i + 1)
    ELSE i

PruneOp_KeepFromI(versions, oldestVersion) ==
    IF Len(versions) <= 1 THEN [Versions |-> versions, ret |-> 0]
    ELSE LET i == PruneLoop(versions, oldestVersion, 0)
             kept == SliceFrom(versions, i)
         IN  [Versions |-> kept,
              ret |-> Len(versions) * versionSize - Len(kept) * versionSize]

\* Prune(oldestVersion): the ledger it leaves and the value it returns
PruneOp(versions, oldestVersion) ==
    IF Len(versions) <= 1 THEN [Versions |-> versions, ret |-> 0]
    ELSE LET i == PruneLoop(versions, oldestVersion, 0)
             originSize == Len(versions) * versionSize
             kept == IF i > 0 /\ versions[i + 1].Ver > oldestVersion
                     THEN SliceFrom(versions, i - 1)
                     ELSE SliceFrom(versions, i)
         IN  [Versions |-> kept, ret |-> originSize - Len(kept) * versionSize]

\* The loop of Rollback (lines 239-245), 0-based index i, may end at -1
RECURSIVE RollbackLoop(_, _, _)

RollbackLoop_Strict(versions, targetVersion, i) ==
    IF i >= 0 /\ ~(versions[i + 1].Ver < targetVersion)
    THEN RollbackLoop(versions, targetVersion, i - 1)
    ELSE i

RollbackLoop(versions, targetVersion, i) ==
    IF i >= 0 /\ ~(versions[i + 1].Ver <= targetVersion)
    THEN RollbackLoop(versions, targetVersion, i - 1)
    ELSE i

\* Rollback(targetVersion): the ledger it leaves and the pair it returns
RollbackOp(versions, targetVersion) ==
    IF Len(versions) = 0 THEN [Versions |-> versions, next |-> FALSE, ret |-> 0]
    ELSE LET i == RollbackLoop(versions, targetVersion, Len(versions) - 1)
             kept == SubSeq(versions, 1, i + 1)
         IN  [Versions |-> kept,
              next |-> i < Len(versions) - 1,
              ret |-> Len(versions) * versionSize - Len(kept) * versionSize]


(***************************************************************************)
(* The sequential harness: one node, calls made one after another under    *)
(* the whole-node lock (node.mu), each call one action.                    *)
(***************************************************************************)

\* Values of the variables a specification does not use
IdleProc == [pc |-> "idle", left |-> Nil, right |-> Nil, hash |-> Nil,
             i |-> 0, prefix |-> 0, nibble |-> 0, seen |-> <<>>,
             ret |-> "none", why |-> "", refused |-> 0, sets |-> {},
             minted |-> FALSE]
IdleCoop ==
    /\ journal = {} /\ racers = {} /\ phase = "off" /\ bver = 0
    /\ prior = FALSE
    /\ proc = [n \in Nibbles |-> IdleProc]
    /\ wrote = [i \in Slots |-> 0]
IdleReplay == log = <<>> /\ orig = <<>> /\ target = 0 /\ ridx = 0
NoBatch == [pc |-> "idle", isNil |-> FALSE, dirty |-> {}, prefix |-> 0,
            i |-> 0, todo |-> {}, wg |-> 0, tasks |-> {}, rejected |-> {},
            locked |-> FALSE,
            pre |-> [Children |-> <<>>, Internals |-> <<>>, Versions |-> <<>>]]
IdleBatch == batch = NoBatch /\ tree = <<>> /\ arch = <<>>

NewNode ==
    /\ Children = NewChildren
    /\ Internals = NewInternals
    /\ Versions = <<>>
    /\ internalVer = NewInternalVer

Snapshot == [Children |-> Children, Internals |-> Internals, Versions |-> Versions]

Called(op, nibble, child, ver, hash, dirty, r, nx) ==
    /\ nops' = nops + 1
    /\ lastOp' = [op |-> op, nibble |-> nibble, child |-> child, ver |-> ver,
                  hash |-> hash, dirty |-> dirty, ret |-> r, next |-> nx,
                  pre |-> Snapshot,
                  prev |-> [op |-> lastOp.op, nibble |-> lastOp.nibble,
                            child |-> lastOp.child, ver |-> lastOp.ver]]
    /\ clean' = (clean /\ op \in {"SetChildren", "ComputeInternalHash"})
    /\ UNCHANGED <<focus, internalVer>>
    /\ UNCHANGED coopVars
    /\ UNCHANGED replayVars
    /\ UNCHANGED batchVars
    /\ UNCHANGED treeVars

\* The children a caller attaches: nil, a child never written, or a child
\* whose ledger holds one entry
ChildInputs(version) ==
    {NilChild, ChildNode(<<>>)}
        \cup {ChildNode(<<VersionInfo(version, h)>>) : h \in HashValues}

\* The dirty-slot sets handed to computeInternal: the slots of some of the
\* focus nibbles
DirtySets == {UNION {leafInternalMap[n] : n \in S} : S \in SUBSET focus}

NoPrev == [op |-> "none", nibble |-> 0, child |-> NilChild, ver |-> 0]
NoCall == [op |-> "none", nibble |-> 0, child |-> NilChild, ver |-> 0,
           hash |-> Nil, dirty |-> {}, ret |-> 0, next |-> FALSE,
           pre |-> [Children |-> NewChildren, Internals |-> NewInternals,
                    Versions |-> <<>>],
           prev |-> NoPrev]

\* n with the bit of weight b flipped (b = 1, 2, 4, 8)
Flip(n, b) == IF (n \div b) % 2 = 0 THEN n + b ELSE n - b

\* The nibble sets a run of the cache harness works on: any nibble alone, or
\* with its sibling under the same leaf-pair slot, the same slot of 2..5,
\* the same slot of 0..1, or the other half of the node.
FocusSets == {{n} : n \in Nibbles}
                \cup {{n, Flip(n, b)} : n \in Nibbles, b \in {1, 2, 4, 8}}

\* The ledgers a node can hold: ascending versions, one entry per version
RECURSIVE LedgersFrom(_)
LedgersFrom(lo) ==
    IF lo > MaxVer THEN {<<>>}
    ELSE LedgersFrom(lo + 1)
         \cup {<<VersionInfo(lo, h)>> \o rest :
                   h \in HashValues, rest \in LedgersFrom(lo + 1)}
SortedLedgers == LedgersFrom(0)

\* Set(hash, version)
Set(hash, version) ==
    /\ version >= latestVersion(Versions)
    /\ Versions' = newVersion(Versions, VersionInfo(version, hash))
    /\ UNCHANGED <<Children, Internals>>
    /\ Called("Set", 0, NilChild, version, hash, {}, 0, FALSE)

\* SetChildren(child, nibble, version)
SetChildren(child, nibble, version) ==
    /\ version >= latestVersion(Versions)
    /\ LET r == SetChildrenOp(Snapshot, child, nibble, version)
       IN  /\ Children' = r.Children
           /\ Internals' = r.Internals
           /\ Versions' = r.Versions
    /\ Called("SetChildren", nibble, child, version, Nil, {}, 0, FALSE)

\* ComputeInternalHash()
ComputeInternalHash ==
    /\ Internals' = ComputeInternalHashOp(Children, Internals)
    /\ UNCHANGED <<Children, Versions>>
    /\ Called("ComputeInternalHash", 0, NilChild, 0, Nil, {}, 0, FALSE)

\* computeInternal(nibbles, pool) with every submitted task run by the pool
computeInternal(dirty) ==
    /\ LET internals == computeInternalOp(Children, Internals, dirty)
       IN  /\ Internals' = internals
           /\ Versions' = newVersion(Versions,
                              VersionInfo(latestVersion(Versions),
                                          Hash(internals[0], internals[1])))
    /\ UNCHANGED Children
    /\ Called("computeInternal", 0, NilChild, 0, Nil, dirty, 0, FALSE)

\* mark(nibble)
mark(nibble) ==
    /\ Internals' = markOp(Internals, nibble)
    /\ UNCHANGED <<Children, Versions>>
    /\ Called("mark", nibble, NilChild, 0, Nil, {}, 0, FALSE)

\* Prune(oldestVersion)
Prune(oldestVersion) ==
    /\ LET r == PruneOp(Versions, oldestVersion)
       IN  /\ Versions' = r.Versions
           /\ Called("Prune", 0, NilChild, oldestVersion, Nil, {}, r.ret, FALSE)
    /\ UNCHANGED <<Children, Internals>>

\* Rollback(targetVersion)
Rollback(targetVersion) ==
    /\ LET r == RollbackOp(Versions, targetVersion)
       IN  /\ Versions' = r.Versions
           /\ Called("Rollback", 0, NilChild, targetVersion, Nil, {}, r.ret, r.next)
    /\ UNCHANGED <<Children, Internals>>

(***************************************************************************)
(* SpecFold: the packed cache under SetChildren, ComputeInternalHash and   *)
(* mark, on a node made by NewTreeNode.                                    *)
(***************************************************************************)
InitFold ==
    /\ NewNode
    /\ focus \in FocusSets
    /\ nops = 0 /\ clean = TRUE /\ lastOp = NoCall
    /\ IdleCoop
    /\ IdleReplay
    /\ IdleBatch

NextFold ==
    \/ \E n \in focus, v \in VersionRange :
         \E c \in ChildInputs(v) : nops < MaxFoldOps /\ SetChildren(c, n, v)
    \/ nops < MaxFoldOps /\ ComputeInternalHash
    \/ \E n \in focus : nops < MaxFoldOps /\ mark(n)

SpecFold == InitFold /\ [][NextFold]_vars

(***************************************************************************)
(* SpecLedger: the version ledger under Set, SetChildren, computeInternal, *)
(* Prune and Rollback, from every ledger a node can hold.                  *)
(***************************************************************************)
InitLedger ==
    /\ Children = NewChildren
    /\ Internals = NewInternals
    /\ internalVer = NewInternalVer
    /\ Versions \in SortedLedgers
    /\ focus \in {{0}, {NumChildren - 1}}
    /\ nops = 0 /\ clean = FALSE /\ lastOp = NoCall
    /\ IdleCoop
    /\ IdleReplay
    /\ IdleBatch

NextLedger ==
    \/ \E h \in HashValues, v \in VersionRange :
         nops < MaxLedgerOps /\ Set(h, v)
    \/ \E n \in focus, v \in VersionRange :
         \E c \in ChildInputs(v) : nops < MaxLedgerOps /\ SetChildren(c, n, v)
    \/ \E d \in DirtySets : nops < MaxLedgerOps /\ computeInternal(d)
    \/ \E o \in 0 .. (MaxVer + 1) : nops < MaxLedgerOps /\ Prune(o)
    \/ \E t \in VersionRange : nops < MaxLedgerOps /\ Rollback(t)

SpecLedger == InitLedger /\ [][NextLedger]_vars


(***************************************************************************)
(* Claims on the sequential paths.                                         *)
(***************************************************************************)
LedgerSorted(versions) ==
    \A i \in 1 .. (Len(versions) - 1) : versions[i].Ver < versions[i + 1].Ver

\* C6: with every Set/SetChildren version at or above the ledger's latest
\* version, Versions stays sorted strictly ascending under Set, SetChildren,
\* computeInternal, Prune and Rollback; a Set/SetChildren whose version is
\* that of the last entry replaces that entry in place, any other appends
\* exactly one entry.
C6_VersionMonotonicity ==
    /\ LedgerSorted(Versions)
    /\ lastOp.op \in {"Set", "SetChildren"} =>
         LET before == lastOp.pre.Versions
             n == Len(before)
         IN  IF n > 0 /\ before[n].Ver = lastOp.ver
             THEN /\ Len(Versions) = n
                  /\ SubSeq(Versions, 1, n - 1) = SubSeq(before, 1, n - 1)
                  /\ Versions[n].Ver = lastOp.ver
                  /\ lastOp.op = "Set" => Versions[n].Hash = lastOp.hash
             ELSE /\ Len(Versions) = n + 1
                  /\ SubSeq(Versions, 1, n) = before
                  /\ Versions[n + 1].Ver = lastOp.ver
                  /\ lastOp.op = "Set" => Versions[n + 1].Hash = lastOp.hash

\* A SetChildren at the version of the last of at least two entries has
\* replaced that entry.
C6_Witness ==
    /\ lastOp.op = "SetChildren"
    /\ Len(lastOp.pre.Versions) >= 2
    /\ lastOp.pre.Versions[Len(lastOp.pre.Versions)].Ver = lastOp.ver
    /\ Versions # lastOp.pre.Versions

\* C7: on a node made by NewTreeNode, after SetChildren and
\* ComputeInternalHash calls alone, Root() is the from-scratch fold of the 16
\* child roots and the 14 Internals are the fold's levels; and
\* ComputeInternalHash, from any state, leaves Internals equal to the fold
\* and the ledger as it was.
C7_IncrementalEqualsFull ==
    /\ clean => /\ Root = FoldRoot(Children)
                /\ Internals = FoldInternals(Children)
    /\ lastOp.op = "ComputeInternalHash" =>
                /\ Internals = FoldInternals(Children)
                /\ Versions = lastOp.pre.Versions

\* Two SetChildren calls have attached two different children with roots
\* other than the nil hash.
C7_Witness ==
    /\ clean /\ nops = 2
    /\ lastOp.op = "SetChildren" /\ lastOp.prev.op = "SetChildren"
    /\ lastOp.nibble # lastOp.prev.nibble
    /\ ChildRoot(Children, lastOp.nibble) \in HashValues
    /\ ChildRoot(Children, lastOp.prev.nibble) \in HashValues
    /\ ChildRoot(Children, lastOp.nibble) # ChildRoot(Children, lastOp.prev.nibble)

VersionCount(versions, ver) ==
    Cardinality({i \in 1 .. Len(versions) : versions[i].Ver = ver})

SameCall == /\ lastOp.op = lastOp.prev.op
            /\ lastOp.nibble = lastOp.prev.nibble
            /\ lastOp.child = lastOp.prev.child
            /\ lastOp.ver = lastOp.prev.ver

\* C8: a SetChildren call that repeats the previous call (same child, nibble
\* and version) changes neither Children, Internals nor the ledger; and two
\* successive SetChildren calls of one version on different nibbles of a
\* consistent node leave one ledger entry of that version, its hash the fold
\* of the children with both updates attached.
C8_SetChildrenIdempotent ==
    /\ (lastOp.op = "SetChildren" /\ SameCall) =>
          /\ Children = lastOp.pre.Children
          /\ Internals = lastOp.pre.Internals
          /\ Versions = lastOp.pre.Versions
    /\ (/\ clean
        /\ lastOp.op = "SetChildren" /\ lastOp.prev.op = "SetChildren"
        /\ lastOp.ver = lastOp.prev.ver
        /\ lastOp.nibble # lastOp.prev.nibble) =>
          /\ VersionCount(Versions, lastOp.ver) = 1
          /\ Children[lastOp.nibble] = lastOp.child
          /\ Children[lastOp.prev.nibble] = lastOp.prev.child
          /\ Versions[Len(Versions)] =
                 VersionInfo(lastOp.ver, FoldRoot(Children))

\* Two children with different roots were attached at one version on
\* different nibbles.
C8_Witness ==
    /\ clean
    /\ lastOp.op = "SetChildren" /\ lastOp.prev.op = "SetChildren"
    /\ lastOp.ver = lastOp.prev.ver
    /\ lastOp.nibble # lastOp.prev.nibble
    /\ ChildRoot(Children, lastOp.nibble) \in HashValues
    /\ ChildRoot(Children, lastOp.prev.nibble) \in HashValues
    /\ ChildRoot(Children, lastOp.nibble) # ChildRoot(Children, lastOp.prev.nibble)

\* The (1-based) positions of the entries of a ledger whose version
\* satisfies the horizon test
BelowHorizon(versions, oldestVersion) ==
    {i \in 1 .. Len(versions) : versions[i].Ver < oldestVersion}
AtOrBelowHorizon(versions, oldestVersion) ==
    {i \in 1 .. Len(versions) : versions[i].Ver <= oldestVersion}

Max(S) == CHOOSE x \in S : \A y \in S : y <= x

\* Prune kept before[k..] of ledger before, k the newest position in
\* candidates (everything when there is none), and returned 40 per entry
\* removed.
PruneKeptFrom(before, candidates) ==
    LET k == IF candidates = {} THEN 1 ELSE Max(candidates)
    IN  /\ Versions = SubSeq(before, k, Len(before))
        /\ lastOp.ret = 40 * (k - 1)

\* C10 as stated: on a ledger of two or more entries Prune keeps the newest
\* entry whose version is < oldestVersion and everything newer, also when an
\* entry's version equals oldestVersion; it returns 40 per entry removed; on
\* a ledger of at most one entry it removes nothing and returns 0.
C10_PruneAsStated ==
    lastOp.op = "Prune" =>
        LET before == lastOp.pre.Versions
        IN  IF Len(before) <= 1
            THEN Versions = before /\ lastOp.ret = 0
            ELSE PruneKeptFrom(before, BelowHorizon(before, lastOp.ver))

\* C10 amended: Prune keeps the newest entry whose version is <= oldestVersion
\* and everything newer (an entry at the horizon is itself the oldest kept).
C10_PruneResult ==
    lastOp.op = "Prune" =>
        LET before == lastOp.pre.Versions
        IN  IF Len(before) <= 1
            THEN Versions = before /\ lastOp.ret = 0
            ELSE PruneKeptFrom(before, AtOrBelowHorizon(before, lastOp.ver))

\* Prune removed entries from a three-entry ledger whose middle entry is at
\* the horizon.
C10_Witness ==
    /\ lastOp.op = "Prune"
    /\ Len(lastOp.pre.Versions) >= 3
    /\ lastOp.pre.Versions[2].Ver = lastOp.ver
    /\ lastOp.ret = 40
    /\ Len(Versions) = 2

\* The newest entry of a ledger with version <= V: the hash in effect at V
\* (nil when there is none)
EffectiveAt(versions, V) ==
    LET S == AtOrBelowHorizon(versions, V)
    IN  IF S = {} THEN Nil ELSE versions[Max(S)].Hash

\* C11: Prune(H) on a sorted ledger keeps the latest entry (Root() and the
\* latest version are unchanged), and for every V >= H the hash in effect at
\* V is the same before and after the call.
C11_PrunePreservesQueries ==
    lastOp.op = "Prune" =>
        LET before == lastOp.pre.Versions
        IN  /\ root(Versions, nilHash) = root(before, nilHash)
            /\ latestVersion(Versions) = latestVersion(before)
            /\ Len(before) > 0 =>
                   /\ Len(Versions) > 0
                   /\ Versions[Len(Versions)] = before[Len(before)]
            /\ \A V \in lastOp.ver .. (MaxVer + 1) :
                   EffectiveAt(Versions, V) = EffectiveAt(before, V)

\* Prune removed an entry and kept two, the older one at or below the
\* horizon and the latest above it.
C11_Witness ==
    /\ lastOp.op = "Prune"
    /\ lastOp.ret >= versionSize
    /\ Len(Versions) = 2
    /\ Versions[1].Ver <= lastOp.ver /\ Versions[2].Ver > lastOp.ver
    /\ EffectiveAt(Versions, lastOp.ver) # root(Versions, nilHash)

\* C12: Rollback(targetVersion) on a sorted ledger leaves exactly the entries
\* with version <= targetVersion (Root() is nilHash when none is left),
\* returns true exactly when an entry was removed, and 40 per entry removed;
\* on an empty ledger it returns (false, 0); Children and Internals are as
\* they were.
C12_RollbackResult ==
    lastOp.op = "Rollback" =>
        LET before == lastOp.pre.Versions
            Keep(e) == e.Ver <= lastOp.ver
            kept == SelectSeq(before, Keep)
            removed == Len(before) - Len(kept)
        IN  /\ Versions = kept
            /\ lastOp.next = (removed >= 1)
            /\ lastOp.ret = 40 * removed
            /\ Len(kept) = 0 => Root = nilHash
            /\ Len(before) = 0 =>
                   /\ lastOp.next = FALSE /\ lastOp.ret = 0
                   /\ Versions = before
            /\ Children = lastOp.pre.Children
            /\ Internals = lastOp.pre.Internals

\* Rollback below the oldest entry removed both entries of a ledger.
C12_Witness ==
    /\ lastOp.op = "Rollback"
    /\ Len(lastOp.pre.Versions) = 2
    /\ Versions = <<>>
    /\ lastOp.next /\ lastOp.ret = 2 * versionSize
    /\ Root = nilHash

\* The slot above slot k in the packed array, and the combine of the two
\* inputs of slot k, left then right
ParentSlot(k) == (k \div 2) - 1
SlotCombine(children, internals, k) ==
    IF k >= 6
    THEN Hash(ChildRoot(children, 2 * (k - 6)), ChildRoot(children, 2 * (k - 6) + 1))
    ELSE Hash(internals[2 * k + 2], internals[2 * k + 3])

\* C16: leafInternalMap[n] is the leaf-pair slot 6 + n/2, its parent and its
\* grandparent; SetChildren(child, n, v) leaves each of these three slots the
\* combine of its two inputs in left/right order, the other 11 slots and the
\* other 15 child pointers as they were; mark(n) sets exactly these three
\* slots to nil and changes nothing else.
C16_PackedIndexFrame ==
    /\ \A n \in Nibbles :
          LET leaf == 6 + (n \div 2)
          IN  /\ leafInternalMap[n] =
                     {leaf, ParentSlot(leaf), ParentSlot(ParentSlot(leaf))}
              /\ ParentSlot(leaf) \in 2 .. 5
              /\ ParentSlot(ParentSlot(leaf)) \in 0 .. 1
    /\ lastOp.op = "SetChildren" =>
          /\ \A k \in Slots :
                IF k \in leafInternalMap[lastOp.nibble]
                THEN Internals[k] = SlotCombine(Children, Internals, k)
                ELSE Internals[k] = lastOp.pre.Internals[k]
          /\ \A m \in Nibbles :
                Children[m] = IF m = lastOp.nibble THEN lastOp.child
                              ELSE lastOp.pre.Children[m]
    /\ lastOp.op = "mark" =>
          /\ \A k \in Slots :
                IF k \in leafInternalMap[lastOp.nibble]
                THEN Internals[k] = Nil
                ELSE Internals[k] = lastOp.pre.Internals[k]
          /\ Children = lastOp.pre.Children
          /\ Versions = lastOp.pre.Versions

\* SetChildren on an odd nibble, after an update of another nibble, changed
\* all three slots of its chain.
C16_Witness ==
    /\ lastOp.op = "SetChildren" /\ lastOp.prev.op = "SetChildren"
    /\ lastOp.nibble % 2 = 1
    /\ lastOp.nibble # lastOp.prev.nibble
    /\ ChildRoot(Children, lastOp.prev.nibble) \in HashValues
    /\ \A k \in leafInternalMap[lastOp.nibble] :
          Internals[k] # lastOp.pre.Internals[k]
    /\ \E k \in Slots : k \notin leafInternalMap[lastOp.nibble]
                          /\ Internals[k] # NewInternals[k]


(***************************************************************************)
(* SpecBatch: the parallel batch recompute, computeInternal(nibbles, pool). *)
(* The caller submits one task per dirty slot of a level to the pool and   *)
(* waits for the level's tasks at wg.Wait(); a submitted task runs at any  *)
(* later moment, a rejected one (pool.Submit returns an error, which the   *)
(* code drops) never runs.                                                 *)
(***************************************************************************)
MaxBatchSetup == 2   \* SetChildrenOnly/mark calls made before the batch call

\* The condition of line 344: slot n belongs to the level of prefix
InLevel(n, prefix) == n >= prefix /\ n <= 2 * prefix + 1

\* The task of slot ni (lines 347-351)
computeInternalTask(children, internals, ni) ==
    LET lr == childrenHash(children, internals, ni)
    IN  [internals EXCEPT ![ni] = Hash(lr[1], lr[2])]

\* The nibble sets a batch run works on: a nibble of either half alone or
\* with one relative
BatchFocus == {{n} : n \in {0, NumChildren - 1}}
                 \cup {{n, Flip(n, b)} : n \in {0, NumChildren - 1},
                                         b \in {1, 2, 4, 8}}

\* The ledgers a batch run starts from: empty, or two entries
BatchLedgers == {<<>>, <<VersionInfo(0, nilHash), VersionInfo(MaxVer, nilHash)>>}

\* The dirty maps handed to computeInternal: the slots of some of the focus
\* nibbles, or the leaf-pair slot of one of them alone
BatchDirtySets == DirtySets \cup {{6 + (n \div 2)} : n \in focus}

InitBatch ==
    /\ Children = NewChildren
    /\ Internals = NewInternals
    /\ internalVer = NewInternalVer
    /\ Versions \in BatchLedgers
    /\ focus \in BatchFocus
    /\ nops = 0 /\ clean = FALSE /\ lastOp = NoCall
    /\ IdleCoop
    /\ IdleReplay
    /\ IdleBatch

BatchFrame == /\ UNCHANGED <<focus, nops, lastOp, clean, internalVer>>
              /\ UNCHANGED coopVars
              /\ UNCHANGED replayVars
              /\ UNCHANGED treeVars

\* SetChildrenOnly(child, nibble, version): the child is attached, no slot
\* is recomputed
SetChildrenOnly(child, nibble) ==
    /\ batch.pc = "idle" /\ nops < MaxBatchSetup
    /\ Children' = [Children EXCEPT ![nibble] = child]
    /\ UNCHANGED <<Internals, Versions>>
    /\ Called("SetChildrenOnly", nibble, child, 0, Nil, {}, 0, FALSE)

\* mark(nibble) before the batch call
BatchMark(nibble) ==
    /\ batch.pc = "idle" /\ nops < MaxBatchSetup
    /\ mark(nibble)

\* computeInternal is entered: a nil map returns at once (line 328), any
\* other takes node.mu and starts the level of prefix 6
BatchCall(dirty, isNil) ==
    /\ batch.pc = "idle"
    /\ batch' = IF isNil
                THEN [batch EXCEPT !.pc = "done", !.isNil = TRUE,
                                   !.pre = Snapshot]
                ELSE [batch EXCEPT !.pc = "level", !.dirty = dirty,
                                   !.prefix = 6, !.i = 4,
                                   !.todo = {n \in dirty : InLevel(n, 6)},
                                   !.locked = TRUE, !.pre = Snapshot]
    /\ UNCHANGED <<Children, Internals, Versions>>
    /\ BatchFrame

\* Lines 343-353 for the next slot of the level (nbArray is sorted
\* descending): wg.Add(1), then pool.Submit, which takes the task or not
BatchSubmit(accepted) ==
    /\ batch.pc = "level" /\ batch.todo # {}
    /\ LET n == Max(batch.todo)
       IN  batch' = [batch EXCEPT
                        !.todo = @ \ {n},
                        !.wg = @ + 1,
                        !.tasks = IF accepted THEN @ \cup {n} ELSE @,
                        !.rejected = IF accepted THEN @ ELSE @ \cup {n}]
    /\ UNCHANGED <<Children, Internals, Versions>>
    /\ BatchFrame

\* The pool runs a task it took: the slot is written, wg.Done()
BatchTask(n) ==
    /\ n \in batch.tasks
    /\ Internals' = computeInternalTask(Children, Internals, n)
    /\ batch' = [batch EXCEPT !.tasks = @ \ {n}, !.wg = @ - 1]
    /\ UNCHANGED <<Children, Versions>>
    /\ BatchFrame

BatchWait_NoBarrier ==
    /\ batch.pc = "level" /\ batch.todo = {}
    /\ LET prefix == batch.prefix - batch.i
           i == batch.i \div 2
       IN  batch' = IF i >= 1
                    THEN [batch EXCEPT !.prefix = prefix, !.i = i,
                                       !.todo = {n \in batch.dirty :
                                                    InLevel(n, prefix)}]
                    ELSE [batch EXCEPT !.prefix = prefix, !.i = i,
                                       !.pc = "mint"]
    /\ UNCHANGED <<Children, Internals, Versions>>
    /\ BatchFrame

\* wg.Wait() returns (line 355), the loop goes to the next level or ends
BatchWait ==
    /\ batch.pc = "level" /\ batch.todo = {} /\ batch.wg = 0
    /\ LET prefix == batch.prefix - batch.i
           i == batch.i \div 2
       IN  batch' = IF i >= 1
                    THEN [batch EXCEPT !.prefix = prefix, !.i = i,
                                       !.todo = {n \in batch.dirty :
                                                    InLevel(n, prefix)}]
                    ELSE [batch EXCEPT !.prefix = prefix, !.i = i,
                                       !.pc = "mint"]
    /\ UNCHANGED <<Children, Internals, Versions>>
    /\ BatchFrame

\* Lines 360-363 and the deferred node.mu.Unlock()
BatchMint ==
    /\ batch.pc = "mint"
    /\ Versions' = newVersion(Versions,
                       VersionInfo(latestVersion(Versions),
                                   Hash(Internals[0], Internals[1])))
    /\ batch' = [batch EXCEPT !.pc = "done", !.locked = FALSE]
    /\ UNCHANGED <<Children, Internals>>
    /\ BatchFrame

NextBatch ==
    \/ \E n \in focus :
          SetChildrenOnly(ChildNode(<<VersionInfo(0, <<(n % MaxHash) + 1>>)>>), n)
    \/ \E n \in focus : BatchMark(n)
    \/ \E d \in BatchDirtySets : BatchCall(d, FALSE)
    \/ BatchCall({}, TRUE)
    \/ \E accepted \in BOOLEAN : BatchSubmit(accepted)
    \/ \E n \in Slots : BatchTask(n)
    \/ BatchWait
    \/ BatchMint

SpecBatch == InitBatch /\ [][NextBatch]_vars

\* The same under the scheduling the code relies on: the caller and the
\* pool's workers keep running
SpecBatchLive == InitBatch /\ [][NextBatch]_vars /\ WF_vars(NextBatch)

UpwardClosed(D) == \A k \in D : k >= 2 => ParentSlot(k) \in D

\* C17: computeInternal(D, pool) has returned, D a dirty set.  If D holds
\* the slots above each of its slots and the slots outside D were the fold
\* of the children, all 14 Internals are the fold of the 16 child roots.
\* Slots outside D and the children are as they were, and a non-empty ledger
\* keeps its entries and version keys, the latest entry's hash being the
\* combine of Internals[0] and Internals[1].
C17_BatchRecomputeResult ==
    (batch.pc = "done" /\ ~batch.isNil) =>
        LET D == batch.dirty
            before == batch.pre
            n == Len(before.Versions)
        IN  /\ (/\ UpwardClosed(D)
                /\ \A k \in Slots \ D :
                      before.Internals[k] = FoldSlot(before.Children, k))
                  => Internals = FoldInternals(Children)
            /\ \A k \in Slots \ D : Internals[k] = before.Internals[k]
            /\ Children = before.Children
            /\ n > 0 =>
                  /\ Len(Versions) = n
                  /\ SubSeq(Versions, 1, n - 1) = SubSeq(before.Versions, 1, n - 1)
                  /\ Versions[n] = VersionInfo(before.Versions[n].Ver,
                                               Hash(Internals[0], Internals[1]))

\* A batch over the chains of two attached children, one chain invalidated
\* and one stale, has rebuilt the cache and replaced the latest hash.
C17_Witness ==
    /\ batch.pc = "done" /\ ~batch.isNil
    /\ Cardinality(batch.dirty) >= 5
    /\ UpwardClosed(batch.dirty)
    /\ \E k \in batch.dirty : batch.pre.Internals[k] = Nil
    /\ \E k \in batch.dirty : k >= 6 /\ batch.pre.Internals[k] = NewInternals[k]
                                /\ Internals[k] # NewInternals[k]
    /\ Len(Versions) = 2
    /\ Internals = FoldInternals(Children)
    /\ Root = FoldRoot(Children) /\ Root # nilHash

\* C18: every call of computeInternal returns and releases node.mu, whatever
\* the pool answers to each submission.
C18_BatchTerminates == <>(batch.pc = "done" /\ ~batch.locked)

\* What the code does give: the call returns when the pool takes every task.
C18_TerminatesIfAccepted ==
    <>((batch.pc = "done" /\ ~batch.locked) \/ batch.rejected # {})


(***************************************************************************)
(* The cooperative recompute protocol (recompute, setInternal,             *)
(* getInternal).  A call is a sequence of steps, each one access to shared *)
(* memory; w is the shared node state, p the call's position and locals.   *)
(***************************************************************************)
World == [Children |-> Children, Internals |-> Internals,
          internalVer |-> internalVer, Versions |-> Versions, wrote |-> wrote]

\* The hash a child of the batch commits at nibble n: neighbours differ
LeafHash(n) == <<(n % MaxHash) + 1>>

Returned(p, value, why) == [p EXCEPT !.pc = "done", !.ret = value, !.why = why]

\* The caller's own update before the call: child.Set(hash, version)
childSet(w, p, n, version) ==
    [w |-> [w EXCEPT !.Children[n].Versions =
                         newVersion(@, VersionInfo(version, LeafHash(n)))],
     p |-> [p EXCEPT !.pc = "called"]]

\* recompute, lines 457-468 and 480-486: the child's own root, the journal
\* lookup of the sibling and the test of the sibling's latest version
recomputeCheck_LessEq(w, p, n, version, jrnl) ==
    LET own == ChildRoot(w.Children, n)
        sibling == Xor1(n)
        exist == sibling \in jrnl
    IN  IF exist /\ latestVersion(w.Children[sibling].Versions) <= version
        THEN [w |-> w, p |-> Returned(p, "false", "sibling")]
        ELSE [w |-> w,
              p |-> [p EXCEPT !.left = IF n % 2 = 0 THEN own ELSE nilChildHash,
                              !.right = IF n % 2 = 0 THEN nilChildHash ELSE own,
                              !.nibble = n, !.prefix = 6, !.i = 4,
                              !.pc = IF exist THEN "sibling" ELSE "set"]]

recomputeCheck(w, p, n, version, jrnl) ==
    LET own == ChildRoot(w.Children, n)
        sibling == Xor1(n)
        exist == sibling \in jrnl
    IN  IF exist /\ latestVersion(w.Children[sibling].Versions) < version
        THEN [w |-> w, p |-> Returned(p, "false", "sibling")]
        ELSE [w |-> w,
              p |-> [p EXCEPT !.left = IF n % 2 = 0 THEN own ELSE nilChildHash,
                              !.right = IF n % 2 = 0 THEN nilChildHash ELSE own,
                              !.nibble = n, !.prefix = 6, !.i = 4,
                              !.pc = IF exist THEN "sibling" ELSE "set"]]

\* recompute, lines 469 and 487: sibling.root(), read without the lock
recomputeSibling(w, p, n) ==
    LET r == root(w.Children[Xor1(n)].Versions, nilChildHash)
    IN  [w |-> w,
         p |-> [p EXCEPT !.left = IF n % 2 = 0 THEN @ ELSE r,
                         !.right = IF n % 2 = 0 THEN r ELSE @,
                         !.pc = "set"]]

setInternal_Overwrite(internals, idx, left, right) ==
    [Internals |-> [internals EXCEPT ![idx] = Hash(left, right)],
     hash |-> Hash(left, right), setBefore |-> FALSE]

\* setInternal(idx, left, right, version) under internalMu[idx]: the slots it
\* leaves, the hash it returns and whether the slot was set before
setInternal(internals, idx, left, right) ==
    IF internals[idx] # Nil
    THEN [Internals |-> internals, hash |-> internals[idx], setBefore |-> TRUE]
    ELSE [Internals |-> [internals EXCEPT ![idx] = Hash(left, right)],
          hash |-> Hash(left, right), setBefore |-> FALSE]

\* getInternal(idx, version) under internalMu[idx]
getInternal(internals, idx) == internals[idx]

\* recompute, lines 501-505: halve the nibble, setInternal, abort if set before
recomputeSet(w, p, n, version) ==
    LET nb == p.nibble \div 2
        idx == p.prefix + nb
        r == setInternal(w.Internals, idx, p.left, p.right)
    IN  IF r.setBefore
        THEN [w |-> w,
              p |-> [Returned(p, "false", "already") EXCEPT !.refused = idx]]
        ELSE [w |-> [w EXCEPT !.Internals = r.Internals,
                              !.internalVer[idx] = version,
                              !.wrote[idx] = @ + 1],
              p |-> [p EXCEPT !.nibble = nb, !.hash = r.hash,
                              !.sets = @ \cup {idx}, !.pc = "get"]]

recomputeGet_NoNilTest(w, p) ==
    LET siblingHash == getInternal(w.Internals, Xor1(p.prefix + p.nibble))
    IN  [w |-> w,
         p |-> [p EXCEPT !.left = IF p.nibble % 2 = 0 THEN p.hash ELSE siblingHash,
                         !.right = IF p.nibble % 2 = 0 THEN siblingHash ELSE p.hash,
                         !.prefix = p.prefix - p.i,
                         !.i = p.i \div 2,
                         !.pc = IF p.i \div 2 >= 1 THEN "set" ELSE "newver"]]

\* recompute, lines 511-531: the sibling slot; abort if it is nil, else the
\* next level's inputs, and the next loop iteration or the loop's end
recomputeGet(w, p) ==
    LET siblingNibble == Xor1(p.prefix + p.nibble)
        siblingHash == getInternal(w.Internals, siblingNibble)
    IN  IF siblingHash = Nil
        THEN [w |-> w, p |-> Returned(p, "false", "nil")]
        ELSE [w |-> w,
              p |-> [p EXCEPT !.left = IF p.nibble % 2 = 0 THEN p.hash ELSE siblingHash,
                              !.right = IF p.nibble % 2 = 0 THEN siblingHash ELSE p.hash,
                              !.prefix = p.prefix - p.i,
                              !.i = p.i \div 2,
                              !.pc = IF p.i \div 2 >= 1 THEN "set" ELSE "newver"]]

\* recompute, lines 534-537 and newVersion line 94: the new entry is built
\* from Internals[0..1] and the ledger is read, both without node.mu
recomputeRead(w, p) ==
    [w |-> w,
     p |-> [p EXCEPT !.hash = Hash(w.Internals[0], w.Internals[1]),
                     !.seen = w.Versions, !.pc = "write"]]

\* newVersion lines 94-99, the write: decided by the ledger as it was read.
\* The overwrite goes to the last entry of the slice; the append extends
\* the slice as read again, or (stale) the slice as it was first read, the
\* two outcomes of the unsynchronised read-modify-write.
recomputeWrite(w, p, version, stale) ==
    LET e == VersionInfo(version, p.hash)
        n == Len(p.seen)
        versions ==
            IF n > 0 /\ p.seen[n].Ver = version
            THEN [w.Versions EXCEPT ![Len(w.Versions)] = e]
            ELSE Append(IF stale THEN p.seen ELSE w.Versions, e)
    IN  [w |-> [w EXCEPT !.Versions = versions],
         p |-> [Returned(p, "true", "") EXCEPT !.minted = TRUE]]

\* One step of the call of child n
recomputeStep(w, p, n, version, jrnl, stale) ==
    CASE p.pc = "called"  -> recomputeCheck(w, p, n, version, jrnl)
      [] p.pc = "sibling" -> recomputeSibling(w, p, n)
      [] p.pc = "set"     -> recomputeSet(w, p, n, version)
      [] p.pc = "get"     -> recomputeGet(w, p)
      [] p.pc = "newver"  -> recomputeRead(w, p)
      [] p.pc = "write"   -> recomputeWrite(w, p, version, stale)
      [] OTHER            -> [w |-> w, p |-> p]

\* A call run from its current position to its return with no other call
\* in between
RECURSIVE recomputeRun(_, _, _, _, _)
recomputeRun(w, p, n, version, jrnl) ==
    IF p.pc = "done" THEN [w |-> w, p |-> p]
    ELSE LET r == recomputeStep(w, p, n, version, jrnl, FALSE)
         IN  recomputeRun(r.w, r.p, n, version, jrnl)

RECURSIVE MarkAll(_, _)
MarkAll(internals, S) ==
    IF S = {} THEN internals
    ELSE LET n == CHOOSE x \in S : TRUE
         IN  MarkAll(markOp(internals, n), S \ {n})

\* The batches: a nibble alone or with one relative, the journal holding just
\* these children or all 16
InitCoop ==
    /\ NewNode
    /\ racers \in FocusSets
    /\ journal \in {racers, Nibbles}
    /\ bver \in 0 .. MaxBatchVer
    /\ prior \in BOOLEAN
    /\ phase = "init"
    /\ proc = [n \in Nibbles |-> IdleProc]
    /\ wrote = [i \in Slots |-> 0]
    /\ focus = {} /\ nops = 0 /\ clean = FALSE /\ lastOp = NoCall
    /\ IdleReplay
    /\ IdleBatch

CoopFrame == /\ UNCHANGED <<journal, racers, bver, prior>>
             /\ UNCHANGED seqVars
             /\ UNCHANGED replayVars
             /\ UNCHANGED batchVars
             /\ UNCHANGED treeVars

\* The ledger of the child at nibble n when the batch begins: empty (a fresh
\* node), or one entry of version 0
PriorLedger(n) == IF prior THEN <<VersionInfo(0, LeafHash(n + 1))>> ELSE <<>>

\* The batch begins: SetChildrenOnly attaches every journal child and mark
\* invalidates the slots of its nibble.
BeginBatch ==
    /\ phase = "init"
    /\ phase' = "run"
    /\ Children' = [n \in Nibbles |->
                       IF n \in journal THEN ChildNode(PriorLedger(n))
                       ELSE Children[n]]
    /\ Internals' = MarkAll(Internals, journal)
    /\ wrote' = [i \in Slots |-> 0]
    /\ UNCHANGED <<Versions, internalVer, proc>>
    /\ CoopFrame

Install(r, n) ==
    /\ Children' = r.w.Children
    /\ Internals' = r.w.Internals
    /\ internalVer' = r.w.internalVer
    /\ Versions' = r.w.Versions
    /\ wrote' = r.w.wrote
    /\ proc' = [proc EXCEPT ![n] = r.p]
    /\ UNCHANGED phase
    /\ CoopFrame

Racing(n, at) == phase = "run" /\ n \in racers /\ proc[n].pc = at

ChildSet(n) ==
    /\ Racing(n, "idle")
    /\ Install(childSet(World, proc[n], n, bver), n)

RecomputeCheck(n) ==
    /\ Racing(n, "called")
    /\ Install(recomputeCheck(World, proc[n], n, bver, journal), n)

RecomputeSibling(n) ==
    /\ Racing(n, "sibling")
    /\ Install(recomputeSibling(World, proc[n], n), n)

RecomputeSet(n) ==
    /\ Racing(n, "set")
    /\ Install(recomputeSet(World, proc[n], n, bver), n)

RecomputeGet(n) ==
    /\ Racing(n, "get")
    /\ Install(recomputeGet(World, proc[n]), n)

RecomputeRead(n) ==
    /\ Racing(n, "newver")
    /\ Install(recomputeRead(World, proc[n]), n)

RecomputeWrite(n) ==
    /\ Racing(n, "write")
    /\ \E stale \in BOOLEAN :
          Install(recomputeWrite(World, proc[n], bver, stale), n)

\* The other children of the journal make their update and their call one
\* at a time, in ascending order, each call running to its return.
Pending == {n \in journal \ racers : proc[n].pc # "done"}
SerialCall(n) ==
    /\ phase = "run"
    /\ Pending # {} /\ n = CHOOSE x \in Pending : \A y \in Pending : x <= y
    /\ LET s == childSet(World, proc[n], n, bver)
       IN  Install(recomputeRun(s.w, s.p, n, bver, journal), n)

NextCoop ==
    \/ BeginBatch
    \/ \E n \in Nibbles : ChildSet(n)
    \/ \E n \in Nibbles : RecomputeCheck(n)
    \/ \E n \in Nibbles : RecomputeSibling(n)
    \/ \E n \in Nibbles : RecomputeSet(n)
    \/ \E n \in Nibbles : RecomputeGet(n)
    \/ \E n \in Nibbles : RecomputeRead(n)
    \/ \E n \in Nibbles : RecomputeWrite(n)
    \/ \E n \in Nibbles : SerialCall(n)

SpecCoop == InitCoop /\ [][NextCoop]_vars

AllReturned == phase = "run" /\ \A n \in journal : proc[n].pc = "done"
Finishers == {n \in journal : proc[n].ret = "true"}


(***************************************************************************)
(* Claims on the cooperative recompute protocol.                           *)
(***************************************************************************)

\* The node after SetChildren(children[n], n, version) for n = k .. 15 in turn
RECURSIVE SetChildrenFrom(_, _, _, _)
SetChildrenFrom(st, children, k, version) ==
    IF k >= NumChildren THEN st
    ELSE SetChildrenFrom(SetChildrenOp(st, children[k], k, version),
                         children, k + 1, version)

\* Root() after the 16 updates of the batch made one after another with
\* SetChildren on a node made by NewTreeNode
SequentialRoot ==
    root(SetChildrenFrom([Children |-> NewChildren, Internals |-> NewInternals,
                          Versions |-> <<>>], Children, 0, bver).Versions,
         nilHash)

FullBatchReturned == AllReturned /\ journal = Nibbles

\* C1 as stated: all 16 children in the journal, all 14 slots invalidated,
\* each child's ledger set to v before its call, v any version: once all
\* calls have returned Root() is the root of the sequential SetChildren run.
C1_RecomputeSafetyAsStated ==
    FullBatchReturned => Root = SequentialRoot

\* C1 amended: the same when v is above the latest version every child
\* reported before its update (0 for an empty ledger, so v >= 1).
C1_RecomputeSafety ==
    (FullBatchReturned /\ bver >= 1) => Root = SequentialRoot

\* All 16 calls have returned, at version 1, the two racing calls being in
\* different halves of the node and one of them the finisher.
C1_Witness ==
    /\ FullBatchReturned /\ bver >= 1
    /\ Cardinality(racers) = 2
    /\ \E n \in racers : proc[n].ret = "true"
    /\ \E a \in racers, b \in racers : a < 8 /\ b >= 8

\* C2: for a non-empty batch whose slots were invalidated, once all calls have
\* returned at least one has returned true and the node's latest version is v.
C2_RecomputeProgress ==
    AllReturned =>
        /\ Finishers # {}
        /\ Len(Versions) > 0
        /\ Versions[Len(Versions)].Ver = bver

\* A batch of two children under different leaf-pair slots has returned.
C2_Witness ==
    /\ AllReturned
    /\ journal = racers /\ Cardinality(racers) = 2
    /\ \E n \in racers : proc[n].ret = "false"
    /\ Finishers # {}

\* C3: at most one call of a batch returns true.
C3_SingleFinisher == Cardinality(Finishers) <= 1

\* C4: in every state reached by concurrent recompute calls the ledger is
\* sorted ascending with at most one entry per version (the calls write it
\* through newVersion without taking node.mu, lines 452-453 and 534).
C4_LedgerUnique == LedgerSorted(Versions)

Level(slot) == IF slot >= 6 THEN 1 ELSE IF slot >= 2 THEN 2 ELSE 3

\* C5: no slot is written twice by setInternal between two invalidations; a
\* call that is told "already set" returns false, and has written neither a
\* slot at or above the level of the refused one nor the ledger.
C5_SlotSingleWriter ==
    /\ \A i \in Slots : wrote[i] <= 1
    /\ \A i \in Slots :
          Cardinality({n \in Nibbles : i \in proc[n].sets}) <= 1
    /\ \A n \in Nibbles :
          proc[n].why = "already" =>
              /\ proc[n].ret = "false"
              /\ ~proc[n].minted
              /\ \A s \in proc[n].sets : Level(s) < Level(proc[n].refused)

\* A racing call wrote its leaf-pair slot and was then told that the slot
\* above was already set.
C5_Witness ==
    \E n \in racers :
        /\ proc[n].why = "already"
        /\ proc[n].sets # {}
        /\ Level(proc[n].refused) = 2


(***************************************************************************)
(* SpecPartial: a batch on a node that already holds a child outside the   *)
(* batch.  The node is consistent before the batch: the child at nibble m  *)
(* was attached by SetChildren at version 0.  One call of the batch runs   *)
(* step by step; the batch commits a version above 0.                      *)
(***************************************************************************)
InitPartial ==
    /\ \E n \in Nibbles :
       \E j \in {{n}, {n, Xor1(n)}, {n, Flip(n, 2)}} :
       \E m \in {Xor1(n), Flip(n, 2), Flip(n, 8)} \ j :
       \E h \in HashValues :
          LET st == SetChildrenOp([Children |-> NewChildren,
                                   Internals |-> NewInternals,
                                   Versions |-> <<>>],
                                  ChildNode(<<VersionInfo(0, h)>>), m, 0)
          IN  /\ racers = {n} /\ journal = j
              /\ Children = st.Children
              /\ Internals = st.Internals
              /\ Versions = st.Versions
    /\ internalVer = NewInternalVer
    /\ bver \in 1 .. MaxBatchVer
    /\ prior \in BOOLEAN
    /\ phase = "init"
    /\ proc = [n \in Nibbles |-> IdleProc]
    /\ wrote = [i \in Slots |-> 0]
    /\ focus = {} /\ nops = 0 /\ clean = FALSE /\ lastOp = NoCall
    /\ IdleReplay
    /\ IdleBatch

SpecPartial == InitPartial /\ [][NextCoop]_vars

\* C19: when the calls of a partial batch have returned and one of them
\* returned true, the root it minted is the root SetChildren produces for
\* the same updates, the fold of the node's 16 current child roots; also
\* when the leaf-level sibling of an updated child is an attached child that
\* is not in the journal.
C19_PartialBatchRoot ==
    (AllReturned /\ Finishers # {}) => Root = FoldRoot(Children)

\* What the code does give: the fold when no updated child has an attached
\* leaf-level sibling outside the journal.
C19_SiblingsTracked ==
    (/\ AllReturned /\ Finishers # {}
     /\ \A n \in journal : Xor1(n) \in journal \/ Children[Xor1(n)].isNil)
        => Root = FoldRoot(Children)


(***************************************************************************)
(* SpecReplay: SetChildren updates with ascending versions, Rollback, and  *)
(* the updates above the target applied again in their original order.     *)
(***************************************************************************)
InitReplay ==
    /\ NewNode
    /\ focus \in FocusSets
    /\ nops = 0 /\ clean = TRUE /\ lastOp = NoCall
    /\ journal = {} /\ racers = {} /\ bver = 0 /\ prior = FALSE
    /\ proc = [n \in Nibbles |-> IdleProc]
    /\ wrote = [i \in Slots |-> 0]
    /\ phase = "build"
    /\ log = <<>> /\ orig = <<>> /\ target = 0 /\ ridx = 0
    /\ IdleBatch

ReplayFrame == /\ UNCHANGED <<focus, nops, lastOp, clean, internalVer>>
               /\ UNCHANGED <<journal, racers, bver, prior, proc, wrote>>
               /\ UNCHANGED batchVars
               /\ UNCHANGED treeVars

InstallNode(r) ==
    /\ Children' = r.Children
    /\ Internals' = r.Internals
    /\ Versions' = r.Versions

\* An update: SetChildren(child, nibble, version), remembered in the log
Update(child, nibble, version) ==
    /\ phase = "build"
    /\ Len(log) < MaxLog
    /\ Len(Versions) > 0 => version > latestVersion(Versions)
    /\ InstallNode(SetChildrenOp(Snapshot, child, nibble, version))
    /\ log' = Append(log, [child |-> child, nibble |-> nibble, ver |-> version])
    /\ UNCHANGED <<phase, orig, target, ridx>>
    /\ ReplayFrame

\* Rollback(targetVersion) after at least one update
RollbackTo(targetVersion) ==
    /\ phase = "build"
    /\ Len(log) >= 1
    /\ Versions' = RollbackOp(Versions, targetVersion).Versions
    /\ orig' = Versions
    /\ target' = targetVersion
    /\ ridx' = 1
    /\ phase' = "replay"
    /\ UNCHANGED <<Children, Internals, log>>
    /\ ReplayFrame

\* The next update of the log is applied again if its version is above the
\* target
Reapply ==
    /\ phase = "replay"
    /\ ridx <= Len(log)
    /\ log[ridx].ver > target
    /\ InstallNode(SetChildrenOp(Snapshot, log[ridx].child, log[ridx].nibble,
                                 log[ridx].ver))
    /\ ridx' = ridx + 1
    /\ UNCHANGED <<phase, log, orig, target>>
    /\ ReplayFrame

\* An update at or below the target is not applied again
Skip ==
    /\ phase = "replay"
    /\ ridx <= Len(log)
    /\ log[ridx].ver <= target
    /\ ridx' = ridx + 1
    /\ UNCHANGED <<Children, Internals, Versions, phase, log, orig, target>>
    /\ ReplayFrame

NextReplay ==
    \/ \E n \in focus, v \in VersionRange, h \in HashValues :
           Update(ChildNode(<<VersionInfo(v, h)>>), n, v)
    \/ \E t \in VersionRange : RollbackTo(t)
    \/ Reapply
    \/ Skip

SpecReplay == InitReplay /\ [][NextReplay]_vars

Replayed == phase = "replay" /\ ridx > Len(log)

\* C9: after Rollback(V) and the re-application, in their original order, of
\* the updates whose version is above V, the ledger is the ledger before the
\* Rollback: the same (version, hash) pair at every version.
C9_RollbackReapply == Replayed => Versions = orig

\* What the code does keep: the versions of the ledger and its latest hash.
C9_FinalRootOnly ==
    Replayed => /\ Len(Versions) = Len(orig)
                /\ \A i \in 1 .. Len(orig) : Versions[i].Ver = orig[i].Ver
                /\ root(Versions, nilHash) = root(orig, nilHash)


(***************************************************************************)
(* Nodes with their substructure: archival (Release, archive) and the      *)
(* serialized projection (ToStorageTreeNode, ToTreeNode).  A node is a     *)
(* record of the fields of struct TreeNode; nlocks and nvers are the       *)
(* lengths of the slices internalMu and internalVer.  Below the children   *)
(* of the node under study every empty-subtree hash is the one term <<0>>. *)
(***************************************************************************)
hashSize == 32

NilNode == [isNil |-> TRUE]
NoChildren == [n \in Nibbles |-> NilNode]
NoInternals == [i \in Slots |-> Nil]

\* NewTreeNode(depth, path, nilHashes, hasher)
NewTreeNode(depth, path) ==
    [isNil |-> FALSE, Versions |-> <<>>,
     Internals |-> [i \in Slots |-> IF i < 2 THEN NilHashes(depth + 1)
                                    ELSE IF i < 6 THEN NilHashes(depth + 2)
                                    ELSE NilHashes(depth + 3)],
     Children |-> NoChildren, temporary |-> FALSE,
     path |-> path, depth |-> depth,
     nilHash |-> NilHashes(depth), nilChildHash |-> NilHashes(depth + 4),
     nlocks |-> NumInternals, nvers |-> NumInternals]

\* node.Root() of a node record
RootOf(node) == root(node.Versions, node.nilHash)

\* node.Size()
Size(node) == IF node.temporary THEN Len(node.Versions) * versionSize
              ELSE Len(node.Versions) * versionSize + hashSize * NumInternals

archive_KeepChildren(node) ==
    [node EXCEPT !.Internals = NoInternals, !.temporary = TRUE]

\* node.archive()
archive(node) ==
    [node EXCEPT !.Internals = NoInternals, !.Children = NoChildren,
                 !.temporary = TRUE]

\* The test of line 291 on a child
Outdated(child, oldestVersion) ==
    /\ Len(child.Versions) > 0
    /\ child.Versions[Len(child.Versions)].Ver < oldestVersion

\* node.Release(oldestVersion): the node it leaves and the size it returns
RECURSIVE ReleaseOp(_, _)
ReleaseOp(node, oldestVersion) ==
    LET sub == [i \in Nibbles |->
                  IF node.Children[i].isNil
                  THEN [node |-> NilNode, size |-> 0]
                  ELSE IF Outdated(node.Children[i], oldestVersion)
                  THEN LET a == archive(node.Children[i])
                       IN  [node |-> a, size |-> Size(a)]
                  ELSE ReleaseOp(node.Children[i], oldestVersion)]
        RECURSIVE Sum(_)
        Sum(k) == IF k >= NumChildren THEN 0 ELSE sub[k].size + Sum(k + 1)
    IN  [node |-> [node EXCEPT !.Children = [i \in Nibbles |-> sub[i].node]],
         size |-> Size(node) + Sum(0)]

\* A StorageTreeNode: the node's Internals, Versions and Path, and of every
\* child the ledger
ToStorageTreeNode(node) ==
    [Children |-> [i \in Nibbles |->
                      IF node.Children[i].isNil THEN NilNode
                      ELSE [isNil |-> FALSE,
                            Versions |-> node.Children[i].Versions]],
     Internals |-> node.Internals,
     Versions |-> node.Versions,
     Path |-> node.path]

ToTreeNode_KeepEmpty(st, depth) ==
    [isNil |-> FALSE, Versions |-> st.Versions, Internals |-> st.Internals,
     Children |-> [i \in Nibbles |->
        IF ~st.Children[i].isNil
        THEN [isNil |-> FALSE, Versions |-> st.Children[i].Versions,
              Internals |-> NoInternals, Children |-> NoChildren,
              temporary |-> TRUE, path |-> 0, depth |-> 0,
              nilHash |-> NilHashes(depth + 4),
              nilChildHash |-> NilHashes(depth + 8),
              nlocks |-> 0, nvers |-> 0]
        ELSE NilNode],
     temporary |-> FALSE, path |-> st.Path, depth |-> depth,
     nilHash |-> NilHashes(depth), nilChildHash |-> NilHashes(depth + 4),
     nlocks |-> 0, nvers |-> 0]

\* StorageTreeNode.ToTreeNode(depth, nilHashes, hasher): the composite
\* literals set neither internalMu nor internalVer (nil slices, length 0),
\* and of a child neither path nor depth
ToTreeNode(st, depth) ==
    [isNil |-> FALSE, Versions |-> st.Versions, Internals |-> st.Internals,
     Children |-> [i \in Nibbles |->
        IF ~st.Children[i].isNil /\ Len(st.Children[i].Versions) > 0
        THEN [isNil |-> FALSE, Versions |-> st.Children[i].Versions,
              Internals |-> NoInternals, Children |-> NoChildren,
              temporary |-> TRUE, path |-> 0, depth |-> 0,
              nilHash |-> NilHashes(depth + 4),
              nilChildHash |-> NilHashes(depth + 8),
              nlocks |-> 0, nvers |-> 0]
        ELSE NilNode],
     temporary |-> FALSE, path |-> st.Path, depth |-> depth,
     nilHash |-> NilHashes(depth), nilChildHash |-> NilHashes(depth + 4),
     nlocks |-> 0, nvers |-> 0]

\* setInternal(idx, left, right, version) on a node record: indexing
\* internalMu or internalVer past its length panics
setInternalOn(node, idx, left, right, version) ==
    IF idx >= node.nlocks THEN [node |-> node, panic |-> TRUE]
    ELSE LET r == setInternal(node.Internals, idx, left, right)
         IN  IF r.setBefore THEN [node |-> node, panic |-> FALSE]
             ELSE IF idx >= node.nvers
             THEN [node |-> [node EXCEPT !.Internals = r.Internals],
                   panic |-> TRUE]
             ELSE [node |-> [node EXCEPT !.Internals = r.Internals],
                   panic |-> FALSE]

\* getInternal(idx, version) on a node record
getInternalOn(node, idx) ==
    IF idx >= node.nlocks THEN [hash |-> Nil, panic |-> TRUE]
    ELSE [hash |-> node.Internals[idx], panic |-> FALSE]

(***************************************************************************)
(* SpecTree: Release, the round trip through the serialized projection and *)
(* slot accesses, one call at a time, on a node with up to two children    *)
(* (nibbles 0 and 15), each with up to one child of its own.               *)
(***************************************************************************)
\* A node at depth with one ledger and, at nibble 0, the child sub
NodeWith(depth, path, versions, sub) ==
    [NewTreeNode(depth, path) EXCEPT !.Versions = versions,
                                     !.Children[0] = sub]

ShortLedgers == {<<>>} \cup {<<VersionInfo(v, <<1>>)>> : v \in VersionRange}

GrandChildInputs == {NilNode} \cup {NodeWith(8, 0, l, NilNode) : l \in ShortLedgers}
TreeChildInputs ==
    {NilNode} \cup {NodeWith(4, 0, l, g) : l \in ShortLedgers, g \in GrandChildInputs}

NoArch == [op |-> "none", H |-> 0, size |-> 0, released |-> FALSE,
           pre |-> NilNode, hasStorage |-> FALSE, storage |-> NilNode,
           src |-> NilNode, hasRt |-> FALSE, rt |-> NilNode,
           touched |-> FALSE, panicked |-> FALSE, accesses |-> 0]

InitTree ==
    /\ NewNode
    /\ focus = {} /\ nops = 0 /\ clean = FALSE /\ lastOp = NoCall
    /\ IdleCoop
    /\ IdleReplay
    /\ batch = NoBatch
    /\ \E a \in TreeChildInputs, b \in TreeChildInputs :
          tree = [NewTreeNode(0, 1) EXCEPT
                      !.Versions = <<VersionInfo(MaxVer, <<1>>)>>,
                      !.Children[0] = a,
                      !.Children[NumChildren - 1] = b]
    /\ arch = NoArch

TreeFrame == /\ UNCHANGED nodeVars
             /\ UNCHANGED seqVars
             /\ UNCHANGED coopVars
             /\ UNCHANGED replayVars
             /\ UNCHANGED batchVars

\* tree.Release(oldestVersion)
Release(oldestVersion) ==
    /\ ~arch.released /\ ~arch.hasStorage
    /\ LET r == ReleaseOp(tree, oldestVersion)
       IN  /\ tree' = r.node
           /\ arch' = [arch EXCEPT !.op = "Release", !.H = oldestVersion,
                                   !.size = r.size, !.released = TRUE,
                                   !.pre = tree]
    /\ TreeFrame

\* tree.ToStorageTreeNode()
Serialize ==
    /\ ~arch.hasStorage
    /\ arch' = [arch EXCEPT !.op = "ToStorageTreeNode", !.hasStorage = TRUE,
                            !.storage = ToStorageTreeNode(tree),
                            !.src = tree]
    /\ UNCHANGED tree
    /\ TreeFrame

\* storage.ToTreeNode(depth, nilHashes, hasher) at the depth of tree
Rehydrate ==
    /\ arch.hasStorage /\ ~arch.hasRt
    /\ arch' = [arch EXCEPT !.op = "ToTreeNode", !.hasRt = TRUE,
                            !.rt = ToTreeNode(arch.storage, arch.src.depth)]
    /\ UNCHANGED tree
    /\ TreeFrame

\* A slot access of recompute, setInternal(idx, ...), on the rehydrated node
RehydratedSetInternal(idx) ==
    /\ arch.hasRt /\ ~arch.rt.temporary /\ ~arch.panicked /\ arch.accesses < 1
    /\ LET r == setInternalOn(arch.rt, idx, <<1>>, <<1>>, MaxVer)
       IN  arch' = [arch EXCEPT !.op = "setInternal", !.rt = r.node,
                                !.touched = TRUE, !.panicked = r.panic,
                                !.accesses = @ + 1]
    /\ UNCHANGED tree
    /\ TreeFrame

\* The other slot access of recompute, getInternal(idx, version)
RehydratedGetInternal(idx) ==
    /\ arch.hasRt /\ ~arch.rt.temporary /\ ~arch.panicked /\ arch.accesses < 1
    /\ LET r == getInternalOn(arch.rt, idx)
       IN  arch' = [arch EXCEPT !.op = "getInternal", !.panicked = r.panic,
                                !.accesses = @ + 1]
    /\ UNCHANGED tree
    /\ TreeFrame

\* The same access on the node made by NewTreeNode
LiveSetInternal(idx) ==
    /\ ~tree.temporary /\ ~arch.panicked /\ ~arch.hasStorage /\ arch.accesses < 1
    /\ LET r == setInternalOn(tree, idx, <<1>>, <<1>>, MaxVer)
       IN  /\ tree' = r.node
           /\ arch' = [arch EXCEPT !.op = "setInternal", !.panicked = r.panic,
                                   !.accesses = @ + 1]
    /\ TreeFrame

NextTree ==
    \/ \E h \in 0 .. (MaxVer + 1) : Release(h)
    \/ Serialize
    \/ Rehydrate
    \/ \E idx \in {0, NumInternals - 1} : RehydratedSetInternal(idx)
    \/ \E idx \in {0, NumInternals - 1} : RehydratedGetInternal(idx)
    \/ \E idx \in {0, NumInternals - 1} : LiveSetInternal(idx)

SpecTree == InitTree /\ [][NextTree]_vars

\* The children of a node, and whether a node is in the archived form
Attached(node) == {i \in Nibbles : ~node.Children[i].isNil}
Cleared(node) == /\ node.temporary
                 /\ node.Internals = NoInternals
                 /\ node.Children = NoChildren

\* Release(H) took node before to node after as C13 states: the ledgers are
\* as they were; an attached child with a non-empty ledger whose latest
\* version is < H is in the archived form; any other attached child keeps its
\* temporary mark and has been treated the same way in turn.
RECURSIVE ReleasedAsStated(_, _, _)
ReleasedAsStated(before, after, H) ==
    /\ after.Versions = before.Versions
    /\ after.temporary = before.temporary
    /\ RootOf(after) = RootOf(before)
    /\ Attached(after) = Attached(before)
    /\ \A i \in Attached(before) :
          LET b == before.Children[i]
              a == after.Children[i]
          IN  /\ a.Versions = b.Versions
              /\ RootOf(a) = RootOf(b)
              /\ IF Len(b.Versions) > 0 /\ latestVersion(b.Versions) < H
                 THEN Cleared(a)
                 ELSE ReleasedAsStated(b, a, H)

\* C13: after Release(H) no ledger of the subtree has changed, every visited
\* child with a non-empty ledger and latest version < H is temporary with
\* all Internals and Children nil, every other child is not archived and is
\* recursed into, and the node itself is not marked temporary.
C13_ReleaseEffect ==
    arch.op = "Release" =>
        /\ ReleasedAsStated(arch.pre, tree, arch.H)
        /\ ~tree.temporary

\* Release archived one child of the node and, inside the other child, which
\* it kept, that child's own child.
C13_Witness ==
    /\ arch.op = "Release"
    /\ \E i \in Attached(tree) : /\ Cleared(tree.Children[i])
                                 /\ Attached(arch.pre.Children[i]) # {}
    /\ \E i \in Attached(tree) :
          /\ ~tree.Children[i].temporary
          /\ \E k \in Attached(tree.Children[i]) :
                Cleared(tree.Children[i].Children[k])

\* The root a parent reads for the child at nibble i
EffectiveRoot(node, i) ==
    IF node.Children[i].isNil THEN node.nilChildHash
    ELSE RootOf(node.Children[i])

\* C14: ToStorageTreeNode followed by ToTreeNode at the same depth gives a
\* node with the same path, Versions, Root() and Internals; a child with a
\* non-empty ledger comes back with that ledger, any other as nil, with the
\* same effective root; every reconstructed child is temporary with nil
\* Internals and Children.  Also after Release(H).
C14_RoundTrip ==
    (arch.hasRt /\ ~arch.touched) =>
        LET o == arch.src
            r == arch.rt
        IN  /\ r.path = o.path
            /\ r.Versions = o.Versions
            /\ RootOf(r) = RootOf(o)
            /\ r.Internals = o.Internals
            /\ \A i \in Nibbles :
                  /\ EffectiveRoot(r, i) = EffectiveRoot(o, i)
                  /\ IF ~o.Children[i].isNil /\ Len(o.Children[i].Versions) > 0
                     THEN /\ ~r.Children[i].isNil
                          /\ r.Children[i].Versions = o.Children[i].Versions
                          /\ Cleared(r.Children[i])
                     ELSE r.Children[i].isNil

\* The round trip of a released node: one child was archived by Release and
\* came back with its ledger, the other had an empty ledger and came back nil.
C14_Witness ==
    /\ arch.hasRt /\ ~arch.touched /\ arch.released
    /\ \E i \in Nibbles : /\ ~arch.src.Children[i].isNil
                          /\ Cleared(arch.src.Children[i])
                          /\ Attached(arch.pre.Children[i]) # {}
                          /\ ~arch.rt.Children[i].isNil
    /\ \E i \in Nibbles : /\ ~arch.src.Children[i].isNil
                          /\ arch.src.Children[i].Versions = <<>>
                          /\ arch.rt.Children[i].isNil

\* The nodes recompute can be called on: the node under study and, once
\* made, the rehydrated node, unless archived
LiveNodes == {n \in {tree} \cup (IF arch.hasRt THEN {arch.rt} ELSE {}) :
                 ~n.temporary}

\* C20: every node recompute can be called on carries 14 per-slot locks and
\* 14 per-slot version cells, and no setInternal or getInternal on a slot
\* 0..13 indexes out of range.
C20_SlotLocksExist ==
    /\ \A n \in LiveNodes : n.nlocks = NumInternals /\ n.nvers = NumInternals
    /\ ~arch.panicked


(***************************************************************************)
(* SpecArchive: tree.Release(H) running while SetChildren runs on the      *)
(* child at nibble 0.  Each call is a sequence of steps; childMu is the    *)
(* whole-node lock of the child, taken by SetChildren (line 109) and by    *)
(* the child's own Release (line 284).                                     *)
(***************************************************************************)
InitArchive ==
    /\ NewNode
    /\ focus = {} /\ nops = 0 /\ clean = FALSE /\ lastOp = NoCall
    /\ IdleCoop
    /\ IdleReplay
    /\ batch = NoBatch
    /\ \E l \in ShortLedgers \ {<<>>} :
          tree = NodeWith(0, 1, <<VersionInfo(MaxVer, <<1>>)>>,
                          NodeWith(4, 0, l, NilNode))
    /\ \E h \in 0 .. (MaxVer + 1), n \in {0, NumChildren - 1},
          v \in VersionRange, g \in ShortLedgers \ {<<>>} :
          arch = [rpc |-> "idle", cpc |-> "idle",
                  nodeMu |-> "free", childMu |-> "free",
                  H |-> h, nibble |-> n, ver |-> v,
                  child |-> NodeWith(8, n, g, NilNode),
                  archived |-> FALSE, raced |-> FALSE]

\* SetChildren on the child: node.mu.Lock() (line 109)
ChildLock ==
    /\ arch.cpc = "idle" /\ arch.childMu = "free"
    /\ arch' = [arch EXCEPT !.cpc = "assign", !.childMu = "op"]
    /\ UNCHANGED tree
    /\ TreeFrame

\* node.Children[nibble] = child (line 112)
ChildAssign ==
    /\ arch.cpc = "assign"
    /\ tree' = [tree EXCEPT !.Children[0].Children[arch.nibble] = arch.child]
    /\ arch' = [arch EXCEPT !.cpc = "slots"]
    /\ TreeFrame

\* The three slots of the chain (lines 115-149)
ChildSlots ==
    /\ arch.cpc = "slots"
    /\ tree' = [tree EXCEPT !.Children[0].Internals =
                   SetChildrenInternals(tree.Children[0].Children,
                                        tree.Children[0].Internals,
                                        arch.nibble)]
    /\ arch' = [arch EXCEPT !.cpc = "mint"]
    /\ TreeFrame

\* newVersion (lines 151-154) and the deferred Unlock
ChildMint ==
    /\ arch.cpc = "mint"
    /\ tree' = [tree EXCEPT !.Children[0].Versions =
                   newVersion(@, VersionInfo(arch.ver,
                                  Hash(tree.Children[0].Internals[0],
                                       tree.Children[0].Internals[1])))]
    /\ arch' = [arch EXCEPT !.cpc = "done", !.childMu = "free"]
    /\ TreeFrame

\* Release on the parent: node.mu.Lock() of the parent (line 284)
ReleaseLock ==
    /\ arch.rpc = "idle" /\ arch.nodeMu = "free"
    /\ arch' = [arch EXCEPT !.rpc = "inspect", !.nodeMu = "release"]
    /\ UNCHANGED tree
    /\ TreeFrame

\* Lines 290-291: the child's ledger is read, the child's lock not taken
ReleaseInspect ==
    /\ arch.rpc = "inspect"
    /\ arch' = [arch EXCEPT
                   !.rpc = IF Outdated(tree.Children[0], arch.H)
                           THEN "clearInternals" ELSE "recurse",
                   !.raced = @ \/ arch.childMu = "op"]
    /\ UNCHANGED tree
    /\ TreeFrame

\* archive, lines 253-255, the child's lock not taken
ReleaseClearInternals ==
    /\ arch.rpc = "clearInternals"
    /\ tree' = [tree EXCEPT !.Children[0].Internals = NoInternals]
    /\ arch' = [arch EXCEPT !.rpc = "clearChildren",
                            !.raced = @ \/ arch.childMu = "op"]
    /\ TreeFrame

\* archive, lines 256-258
ReleaseClearChildren ==
    /\ arch.rpc = "clearChildren"
    /\ tree' = [tree EXCEPT !.Children[0].Children = NoChildren]
    /\ arch' = [arch EXCEPT !.rpc = "setTemporary",
                            !.raced = @ \/ arch.childMu = "op"]
    /\ TreeFrame

\* archive, line 259
ReleaseSetTemporary ==
    /\ arch.rpc = "setTemporary"
    /\ tree' = [tree EXCEPT !.Children[0].temporary = TRUE]
    /\ arch' = [arch EXCEPT !.rpc = "unlock", !.archived = TRUE,
                            !.raced = @ \/ arch.childMu = "op"]
    /\ TreeFrame

\* Line 296: the child's own Release, which runs under the child's lock
ReleaseRecurse ==
    /\ arch.rpc = "recurse" /\ arch.childMu = "free"
    /\ tree' = [tree EXCEPT !.Children[0] = ReleaseOp(@, arch.H).node]
    /\ arch' = [arch EXCEPT !.rpc = "unlock"]
    /\ TreeFrame

\* The deferred Unlock of the parent
ReleaseUnlock ==
    /\ arch.rpc = "unlock"
    /\ arch' = [arch EXCEPT !.rpc = "done", !.nodeMu = "free"]
    /\ UNCHANGED tree
    /\ TreeFrame

NextArchive ==
    \/ ChildLock
    \/ ChildAssign
    \/ ChildSlots
    \/ ChildMint
    \/ ReleaseLock
    \/ ReleaseInspect
    \/ ReleaseClearInternals
    \/ ReleaseClearChildren
    \/ ReleaseSetTemporary
    \/ ReleaseRecurse
    \/ ReleaseUnlock

SpecArchive == InitArchive /\ [][NextArchive]_vars

\* Release is between its reading of the child's ledger and the end of the
\* child's archive
Archiving == arch.rpc \in {"clearInternals", "clearChildren", "setTemporary"}

\* C15: Release reads the child's ledger and archives the child only while
\* no whole-node-lock operation runs on the child, and none runs while the
\* child is being archived.
C15_ArchiveExclusive ==
    /\ ~arch.raced
    /\ ~(Archiving /\ arch.childMu = "op")

\* A consequence the code does not give either: when Release has archived
\* the child and returned, the child is temporary with Internals and
\* Children nil.
C15_ArchivedIsCleared ==
    (arch.rpc = "done" /\ arch.archived /\ arch.raced) =>
        Cleared(tree.Children[0])


=============================================================================
